---- MODULE Spec2Model ----
(***************************************************************************)
(* Timetable scripts of sih.py: four script variants that each build a     *)
(* constraint model over course/slot/room decisions, hand it to the        *)
(* CP-SAT solver and print the timetable the solver returns.               *)
(*                                                                         *)
(* A run is: input data -> Build (the constraint section of the variant)   *)
(* -> Solve (solver.Solve(model)) -> Print (the output section).           *)
(* The solver is an external library: Solve is modelled by its contract,   *)
(* any valuation that satisfies every constraint added to the model, or    *)
(* INFEASIBLE when there is none, or UNKNOWN when the time limit ends the  *)
(* search before either is established.                                    *)
(***************************************************************************)
EXTENDS Integers, Sequences, FiniteSets, TLC

\* ------------------------------------------------------------- bounds
MaxCourses == 3
MaxRooms == 2
MaxDays == 2
MaxSlotsPerDay == 2
\* courses * rooms * days * slots_per_day of an input is at most MaxCells
MaxCells == 8
\* days * slots_per_day of an input is at most MaxSlots
MaxSlots == 4
\* largest minimum a course may declare
MaxMinLectures == 2
\* longest run of consecutive slots a faculty is unavailable for
MaxUnavailable == 1
\* most shared-student pairs declared
MaxSharedPairs == 2

VARIABLES
    variant,                 \* which of the four scripts runs (1..4)
    num_courses,             \* len(courses)
    num_rooms,               \* len(rooms)
    days,
    slots_per_day,
    faculty,                 \* course index -> faculty
    shared_students,         \* set of <<i, j>> course index pairs
    faculty_unavailability,  \* faculty -> set of slots (keys: a subset of the faculties)
    course_min_lectures,     \* course index -> minimum (declared by variants 3 and 4 only)
    pc,                      \* "build", "solve", "print", "done"
    model,                   \* the constraint blocks added to the CpModel
    course_time,             \* variant 1: solver.Value(course_time[c])
    course_room,             \* variant 1: solver.Value(course_room[c])
    same_room,               \* variant 1: solver.Value(same_room_i_j)
    x,                       \* variants 2-4: solver.Value(x[c, t, r])
    status,                  \* solver status
    timetable,               \* decoded grid: <<day, period>> -> sequence of entries
    table_data,              \* rows of the printed table
    summary,                 \* variant 4: per-course summary lines
    output                   \* which branch of the output section printed

vars == <<variant, num_courses, num_rooms, days, slots_per_day, faculty,
          shared_students, faculty_unavailability, course_min_lectures, pc,
          model, course_time, course_room, same_room, x, status, timetable,
          table_data, summary, output>>

inputs == <<variant, num_courses, num_rooms, days, slots_per_day, faculty,
            shared_students, faculty_unavailability, course_min_lectures>>

\* ------------------------------------------------------- index spaces
total_slots == days * slots_per_day
room_indices == 0 .. (num_rooms - 1)
course_indices == 0 .. (num_courses - 1)
time_slots == 0 .. (total_slots - 1)
Cells == course_indices \X time_slots \X room_indices
CoursePairs == {p \in course_indices \X course_indices : p[1] < p[2]}
Faculties == 1 .. num_courses

\* sum(g[l] for l in lits) of 0/1 values
SumOf(g, lits) == Cardinality({l \in lits : g[l] = 1})

\* (mutant) model.AddAtLeastOne called where AddAtMostOne is meant
AddAtLeastOne(g, lits) == SumOf(g, lits) >= 1

\* model.AddAtMostOne(lits)
AddAtMostOne(g, lits) == SumOf(g, lits) <= 1

\* `f_name in faculty_unavailability` and the slots listed for it
UnavailableSlots(f) ==
    IF f \in DOMAIN faculty_unavailability THEN faculty_unavailability[f] ELSE {}

\* --------------------------------------- variant 1: constraint section
\* (mutant) same_room is only half reified: the line enforcing different rooms
\* under same_room.Not() is missing
V1SameRoomHalfReified(ct, cr, sr) ==
    \A p \in CoursePairs :
        LET i == p[1]
            j == p[2]
        IN  /\ sr[p] => cr[i] = cr[j]
            /\ sr[p] => ct[i] # ct[j]

\* 1. No two courses in the same room at the same time: same_room[i, j] is
\*    reified to course_room[i] = course_room[j], and forces different times.
V1SameRoom(ct, cr, sr) ==
    \A p \in CoursePairs :
        LET i == p[1]
            j == p[2]
        IN  /\ sr[p] => cr[i] = cr[j]
            /\ ~sr[p] => cr[i] # cr[j]
            /\ sr[p] => ct[i] # ct[j]

\* 2. Faculty not double-booked
V1Faculty(ct) ==
    \A p \in CoursePairs :
        faculty[p[1]] = faculty[p[2]] => ct[p[1]] # ct[p[2]]

\* 3. Faculty unavailable time slots
V1Unavailable(ct) ==
    \A i \in course_indices :
        \A slot \in UnavailableSlots(faculty[i]) : ct[i] # slot

\* 4. Avoid shared student conflicts
V1Shared(ct) ==
    \A pair \in shared_students : ct[pair[1]] # ct[pair[2]]

\* ----------------------------------- variants 2-4: constraint sections
\* (mutant) the generator runs over the rooms instead of the courses
RoomAtMostOneOverRooms(g) ==
    \A t \in time_slots : \A c \in course_indices :
        AddAtMostOne(g, {<<c, t, r>> : r \in room_indices})

\* Only one course per room at each time slot
RoomAtMostOne(g) ==
    \A t \in time_slots : \A r \in room_indices :
        AddAtMostOne(g, {<<c, t, r>> : c \in course_indices})

\* variant 2 only: each time slot must be used
SlotUsed(g) ==
    \A t \in time_slots :
        SumOf(g, {<<c, t, r>> : c \in course_indices, r \in room_indices}) >= 1

\* A course can't be in two rooms at the same time
CourseOneRoom(g) ==
    \A c \in course_indices : \A t \in time_slots :
        AddAtMostOne(g, {<<c, t, r>> : r \in room_indices})

\* (mutant) the at-most-one is stated room by room
FacultyAtMostOnePerRoom(g) ==
    \A t \in time_slots :
        \A f \in {faculty[c] : c \in course_indices} :
            LET relevant_courses == {c \in course_indices : faculty[c] = f}
            IN  \A r \in room_indices :
                    AddAtMostOne(g, {<<c, t, r>> : c \in relevant_courses})

\* Faculty cannot be in more than one place at the same time
FacultyAtMostOne(g) ==
    \A t \in time_slots :
        \A f \in {faculty[c] : c \in course_indices} :
            LET relevant_courses == {c \in course_indices : faculty[c] = f}
            IN  AddAtMostOne(g, {<<c, t, r>> : c \in relevant_courses, r \in room_indices})

\* Faculty unavailability: x[c, t, r] == 0
Unavailable(g) ==
    \A c \in course_indices :
        \A t \in UnavailableSlots(faculty[c]) :
            \A r \in room_indices : g[c, t, r] = 0

\* (mutant) the two courses are only kept out of the same room
SharedStudentsPerRoom(g) ==
    \A pair \in shared_students :
        \A t \in time_slots : \A r \in room_indices :
            g[pair[1], t, r] + g[pair[2], t, r] <= 1

\* Shared students: no overlap
SharedStudents(g) ==
    \A pair \in shared_students :
        LET i == pair[1]
            j == pair[2]
        IN  \A t \in time_slots :
                SumOf(g, {<<i, t, r1>> : r1 \in room_indices})
                  + SumOf(g, {<<j, t, r2>> : r2 \in room_indices}) <= 1

\* (mutant) every course is asked for one lecture, whatever its minimum
MinLecturesAtLeastOne(g) ==
    \A c \in course_indices :
        course_min_lectures[c] >= 1 =>
            SumOf(g, {<<c, t, r>> : t \in time_slots, r \in room_indices}) >= 1

\* Each course must be scheduled multiple times per week
MinLectures(g) ==
    \A c \in course_indices :
        LET min_lectures == course_min_lectures[c]
        IN  SumOf(g, {<<c, t, r>> : t \in time_slots, r \in room_indices}) >= min_lectures

\* The constraint blocks each variant's constraint section adds to its model
ConstraintsV1 == {"same_room", "faculty", "unavailable", "shared"}
ConstraintsV2 == {"room", "slot_used", "course_room", "faculty", "unavailable", "shared"}
\* (mutant) variant 3 keeps variant 2's "each time slot must be used"
ConstraintsV3WithSlotUsed ==
    {"room", "slot_used", "course_room", "faculty", "unavailable", "shared", "min_lectures"}
ConstraintsV3 == {"room", "course_room", "faculty", "unavailable", "shared", "min_lectures"}
ConstraintsV4 == {"room", "course_room", "faculty", "shared", "min_lectures"}

\* A valuation of variant 1's variables satisfies the model m
SatV1(m, ct, cr, sr) ==
    /\ "same_room" \in m => V1SameRoom(ct, cr, sr)
    /\ "faculty" \in m => V1Faculty(ct)
    /\ "unavailable" \in m => V1Unavailable(ct)
    /\ "shared" \in m => V1Shared(ct)

\* A valuation of the x grid satisfies the model m
SatGrid(m, g) ==
    /\ "room" \in m => RoomAtMostOne(g)
    /\ "slot_used" \in m => SlotUsed(g)
    /\ "course_room" \in m => CourseOneRoom(g)
    /\ "faculty" \in m => FacultyAtMostOne(g)
    /\ "unavailable" \in m => Unavailable(g)
    /\ "shared" \in m => SharedStudents(g)
    /\ "min_lectures" \in m => MinLectures(g)

\* Domains of the solver's variables
TimeVals == [course_indices -> time_slots]
RoomVals == [course_indices -> room_indices]
SameRoomVals == [CoursePairs -> BOOLEAN]
GridVals == [Cells -> {0, 1}]

HasSolutionV1(m) ==
    \E ct \in TimeVals : \E cr \in RoomVals : \E sr \in SameRoomVals : SatV1(m, ct, cr, sr)
HasSolutionGrid(m) == \E g \in GridVals : SatGrid(m, g)
HasSolution(m) == IF variant = 1 THEN HasSolutionV1(m) ELSE HasSolutionGrid(m)

\* solver.parameters.max_time_in_seconds is set by variants 2-4 only
TimeLimited == variant \in {2, 3, 4}

\* (mutant) only OPTIMAL is taken as found
FoundOptimalOnly(st) == st = "OPTIMAL"

\* status == cp_model.OPTIMAL or status == cp_model.FEASIBLE
Found(st) == st = "OPTIMAL" \/ st = "FEASIBLE"

\* ------------------------------------------------------ output sections
\* (mutant) the slot index is divided by days instead of slots_per_day
SlotDayByDays(t) == t \div days

\* day / period of a slot index (0-based)
SlotDay(t) == t \div slots_per_day
SlotPeriod(t) == t % slots_per_day

\* f"{course_name} ({faculty_name}, {room_name})"
Entry(c, r) == <<c, faculty[c], r>>

\* The cells in the order the nested loops visit them
\* variant 2: for t, for c, for r
LoopOrderV2 ==
    [k \in 1 .. (num_courses * total_slots * num_rooms) |->
        <<((k - 1) \div num_rooms) % num_courses,
          (k - 1) \div (num_courses * num_rooms),
          (k - 1) % num_rooms>>]
\* variants 3, 4: for c, for t, for r
LoopOrderV3 ==
    [k \in 1 .. (num_courses * total_slots * num_rooms) |->
        <<(k - 1) \div (total_slots * num_rooms),
          ((k - 1) \div num_rooms) % total_slots,
          (k - 1) % num_rooms>>]

\* The decode loop: append an entry to timetable[day][period] for each cell
\* whose value is 1; off is 1 for variant 2 (1-based keys), 0 for variants 3, 4.
RECURSIVE DecodeLoop(_, _, _, _)
DecodeLoop(g, cells, tt, off) ==
    IF cells = <<>> THEN tt
    ELSE LET c == Head(cells)[1]
             t == Head(cells)[2]
             r == Head(cells)[3]
             day == SlotDay(t) + off
             period == SlotPeriod(t) + off
         IN  DecodeLoop(g, Tail(cells),
                        IF g[c, t, r] = 1
                        THEN [tt EXCEPT ![<<day, period>>] = Append(@, Entry(c, r))]
                        ELSE tt,
                        off)

\* timetable = defaultdict(...) read at every day 1..days, period 1..slots_per_day
TimetableV2(g) ==
    DecodeLoop(g, LoopOrderV2,
               [k \in (1 .. days) \X (1 .. slots_per_day) |-> <<>>], 1)

\* timetable = [[[] for _ in range(slots_per_day)] for _ in range(days)]
TimetableV3(g) ==
    DecodeLoop(g, LoopOrderV3,
               [k \in (0 .. (days - 1)) \X (0 .. (slots_per_day - 1)) |-> <<>>], 0)

\* cell_text: the joined entries, or "Free"
CellText(cell_entries) ==
    IF cell_entries # <<>>
    THEN [text |-> "entries", entries |-> cell_entries]
    ELSE [text |-> "Free", entries |-> <<>>]

\* variant 2: one printed row per day in range(1, days + 1)
RowsV2(tt) ==
    [d \in 1 .. days |->
        [label |-> d,
         cells |-> [p \in 1 .. slots_per_day |-> CellText(tt[<<d, p>>])]]]

\* variants 3, 4: table_data, one row per day in range(days), labelled day + 1
RowsV3(tt) ==
    [d \in 1 .. days |->
        [label |-> (d - 1) + 1,
         cells |-> [p \in 1 .. slots_per_day |-> CellText(tt[<<d - 1, p - 1>>])]]]

\* variant 1: one printed line per course
LinesV1(ct, cr) ==
    [k \in 1 .. num_courses |->
        LET c == k - 1
            time_slot == ct[c]
        IN  [course |-> c, faculty |-> faculty[c],
             day |-> SlotDay(time_slot) + 1,
             period |-> SlotPeriod(time_slot) + 1,
             room |-> cr[c]]]

\* variant 4: the summary lines
SummaryV4(g) ==
    [c \in course_indices |->
        [lectures_scheduled |->
            SumOf(g, {<<c, t, r>> : t \in time_slots, r \in room_indices}),
         min |-> course_min_lectures[c]]]

NoFeasibleMessage == "No feasible timetable found."
TimetableMessage == "Timetable"

\* ------------------------------------------------------------- inputs
NoValue == <<>>

\* faculty maps: every course its own faculty (as in the scripts' data), the
\* courses paired two to a faculty, one faculty for every course
FacultyInputs ==
    {[c \in course_indices |-> c + 1],
     [c \in course_indices |-> (c \div 2) + 1],
     [c \in course_indices |-> 1]}

\* the first faculty lists a run of unavailable slots, or none does
UnavailabilityInputs ==
    {NoValue} \cup
    {f :> (run[1] .. run[2]) :
        f \in {1},
        run \in {q \in time_slots \X time_slots :
                    q[2] >= q[1] /\ q[2] - q[1] < MaxUnavailable}}

\* the first k pairs of consecutive courses share students
SharedInputs ==
    {{<<i, i + 1>> : i \in 0 .. (k - 1)} :
        k \in {n \in 0 .. MaxSharedPairs : n < num_courses}}

\* no course, the first course or every course declares the minimum m, the
\* others the minimum 0
MinLectureInputs ==
    {[c \in course_indices |-> IF c < k THEN m ELSE 0] :
        k \in {0, 1, num_courses}, m \in 1 .. MaxMinLectures}

\* The four scripts follow one another in sih.py and share its names: the
\* faculty_unavailability of the earlier scripts is still bound when variant 4
\* runs (which never reads it), and course_min_lectures is first bound by
\* variant 3.
Init ==
    /\ variant \in 1 .. 4
    /\ num_courses \in 1 .. MaxCourses
    /\ num_rooms \in 1 .. MaxRooms
    /\ days \in 1 .. MaxDays
    /\ slots_per_day \in 1 .. MaxSlotsPerDay
    /\ days * slots_per_day <= MaxSlots
    /\ num_courses * num_rooms * days * slots_per_day <= MaxCells
    /\ faculty \in FacultyInputs
    /\ shared_students \in SharedInputs
    /\ faculty_unavailability \in UnavailabilityInputs
    /\ course_min_lectures \in
          (IF variant \in {3, 4}
           THEN MinLectureInputs
           ELSE {NoValue})
    /\ pc = "build"
    /\ model = {}
    /\ course_time = NoValue
    /\ course_room = NoValue
    /\ same_room = NoValue
    /\ x = NoValue
    /\ status = "UNSOLVED"
    /\ timetable = NoValue
    /\ table_data = NoValue
    /\ summary = NoValue
    /\ output = "none"

\* ------------------------------------------------------------ actions
\* variant 1: the model is created and its constraint section runs
BuildV1 ==
    /\ pc = "build"
    /\ variant = 1
    /\ model' = ConstraintsV1
    /\ pc' = "solve"
    /\ UNCHANGED <<inputs, course_time, course_room, same_room, x, status,
                   timetable, table_data, summary, output>>

\* variant 2: the model is created and its constraint section runs
BuildV2 ==
    /\ pc = "build"
    /\ variant = 2
    /\ model' = ConstraintsV2
    /\ pc' = "solve"
    /\ UNCHANGED <<inputs, course_time, course_room, same_room, x, status,
                   timetable, table_data, summary, output>>

\* variant 3: the model is created and its constraint section runs
BuildV3 ==
    /\ pc = "build"
    /\ variant = 3
    /\ model' = ConstraintsV3
    /\ pc' = "solve"
    /\ UNCHANGED <<inputs, course_time, course_room, same_room, x, status,
                   timetable, table_data, summary, output>>

\* variant 4: the model is created and its constraint section runs
BuildV4 ==
    /\ pc = "build"
    /\ variant = 4
    /\ model' = ConstraintsV4
    /\ pc' = "solve"
    /\ UNCHANGED <<inputs, course_time, course_room, same_room, x, status,
                   timetable, table_data, summary, output>>

\* solver.Solve(model) returns with a solution of variant 1's model
SolveFoundV1 ==
    /\ pc = "solve"
    /\ variant = 1
    /\ \E ct \in TimeVals : \E cr \in RoomVals : \E sr \in SameRoomVals :
          /\ SatV1(model, ct, cr, sr)
          /\ course_time' = ct
          /\ course_room' = cr
          /\ same_room' = sr
    /\ status' \in {"OPTIMAL", "FEASIBLE"}
    /\ pc' = "print"
    /\ UNCHANGED <<inputs, model, x, timetable, table_data, summary, output>>

\* solver.Solve(model) returns with a solution of the grid model
SolveFoundGrid ==
    /\ pc = "solve"
    /\ variant # 1
    /\ \E g \in GridVals :
          /\ SatGrid(model, g)
          /\ x' = g
    /\ status' \in {"OPTIMAL", "FEASIBLE"}
    /\ pc' = "print"
    /\ UNCHANGED <<inputs, model, course_time, course_room, same_room,
                   timetable, table_data, summary, output>>

\* the search space is exhausted with no solution
SolveInfeasible ==
    /\ pc = "solve"
    /\ ~HasSolution(model)
    /\ status' = "INFEASIBLE"
    /\ pc' = "print"
    /\ UNCHANGED <<inputs, model, course_time, course_room, same_room, x,
                   timetable, table_data, summary, output>>

\* max_time_in_seconds ends the search with neither a solution nor a proof
SolveTimeLimit ==
    /\ pc = "solve"
    /\ TimeLimited
    /\ status' = "UNKNOWN"
    /\ pc' = "print"
    /\ UNCHANGED <<inputs, model, course_time, course_room, same_room, x,
                   timetable, table_data, summary, output>>

PrintV1 ==
    /\ pc = "print"
    /\ variant = 1
    /\ IF Found(status)
       THEN /\ table_data' = LinesV1(course_time, course_room)
            /\ output' = TimetableMessage
       ELSE /\ table_data' = table_data
            /\ output' = NoFeasibleMessage
    /\ pc' = "done"
    /\ UNCHANGED <<inputs, model, course_time, course_room, same_room, x,
                   status, timetable, summary>>

PrintV2 ==
    /\ pc = "print"
    /\ variant = 2
    /\ IF Found(status)
       THEN /\ timetable' = TimetableV2(x)
            /\ table_data' = RowsV2(TimetableV2(x))
            /\ output' = TimetableMessage
       ELSE /\ UNCHANGED <<timetable, table_data>>
            /\ output' = NoFeasibleMessage
    /\ pc' = "done"
    /\ UNCHANGED <<inputs, model, course_time, course_room, same_room, x,
                   status, summary>>

PrintV3 ==
    /\ pc = "print"
    /\ variant = 3
    /\ IF Found(status)
       THEN /\ timetable' = TimetableV3(x)
            /\ table_data' = RowsV3(TimetableV3(x))
            /\ output' = TimetableMessage
       ELSE /\ UNCHANGED <<timetable, table_data>>
            /\ output' = NoFeasibleMessage
    /\ pc' = "done"
    /\ UNCHANGED <<inputs, model, course_time, course_room, same_room, x,
                   status, summary>>

PrintV4 ==
    /\ pc = "print"
    /\ variant = 4
    /\ IF Found(status)
       THEN /\ timetable' = TimetableV3(x)
            /\ table_data' = RowsV3(TimetableV3(x))
            /\ summary' = SummaryV4(x)
            /\ output' = TimetableMessage
       ELSE /\ UNCHANGED <<timetable, table_data, summary>>
            /\ output' = NoFeasibleMessage
    /\ pc' = "done"
    /\ UNCHANGED <<inputs, model, course_time, course_room, same_room, x, status>>

Next ==
    \/ BuildV1
    \/ BuildV2
    \/ BuildV3
    \/ BuildV4
    \/ SolveFoundV1
    \/ SolveFoundGrid
    \/ SolveInfeasible
    \/ SolveTimeLimit
    \/ PrintV1
    \/ PrintV2
    \/ PrintV3
    \/ PrintV4

Spec == Init /\ [][Next]_vars

\* ------------------------------------------------------------- claims
\* The solver status is one of the two the scripts report as a found timetable
TimetableFound == status \in {"OPTIMAL", "FEASIBLE"}

\* Course c is scheduled at slot s in room r in the returned valuation
Scheduled(c, s, r) ==
    IF variant = 1
    THEN course_time[c] = s /\ course_room[c] = r
    ELSE x[c, s, r] = 1

ScheduledAt(c, s) == \E r \in room_indices : Scheduled(c, s, r)

LectureCount(c) ==
    Cardinality({sr \in time_slots \X room_indices : Scheduled(c, sr[1], sr[2])})

\* C1: in every timetable reported as found, by any of the four variants, at
\* most one course is scheduled at each (slot, room).
C1_RoomExclusive ==
    TimetableFound =>
        \A s \in time_slots : \A r \in room_indices :
            Cardinality({c \in course_indices : Scheduled(c, s, r)}) <= 1

\* Variant 1 reports a timetable with two courses at the same slot, in two rooms
C1_Witness ==
    /\ pc = "done"
    /\ variant = 1
    /\ TimetableFound
    /\ \E p \in CoursePairs :
          /\ course_time[p[1]] = course_time[p[2]]
          /\ course_room[p[1]] # course_room[p[2]]
          /\ ~same_room[p]

\* C2: in every timetable reported as found, no course is scheduled, in any
\* room, at a slot its faculty is unavailable for.
C2_FacultyUnavailable ==
    TimetableFound =>
        \A c \in course_indices :
            \A s \in UnavailableSlots(faculty[c]) : ~ScheduledAt(c, s)

\* C3: in every timetable reported as found, for every shared-student pair
\* (i, j) and every slot, at most one of i and j is scheduled at the slot, in
\* whatever rooms.
C3_ConflictPairs ==
    TimetableFound =>
        \A pair \in shared_students : \A s \in time_slots :
            ~(ScheduledAt(pair[1], s) /\ ScheduledAt(pair[2], s))

\* Both courses of a shared-student pair are scheduled, with two rooms to choose from
C3_Witness ==
    /\ pc = "done"
    /\ TimetableFound
    /\ num_rooms >= 2
    /\ \E pair \in shared_students :
          /\ LectureCount(pair[1]) >= 1
          /\ LectureCount(pair[2]) >= 1

\* C4: in every timetable reported as found, every course with a declared
\* minimum is scheduled at least that many times, and every line of variant
\* 4's summary shows that count and that minimum.
C4_MinLectures ==
    TimetableFound =>
        /\ \A c \in DOMAIN course_min_lectures :
              LectureCount(c) >= course_min_lectures[c]
        /\ (variant = 4 /\ pc = "done") =>
              \A c \in course_indices :
                  /\ summary[c].lectures_scheduled = LectureCount(c)
                  /\ summary[c].min = course_min_lectures[c]
                  /\ summary[c].lectures_scheduled >= summary[c].min

\* Variant 4 prints a summary line for a course with a minimum of 2 or more
C4_Witness ==
    /\ pc = "done"
    /\ variant = 4
    /\ TimetableFound
    /\ \E c \in course_indices :
          /\ course_min_lectures[c] >= 2
          /\ summary[c].lectures_scheduled >= 2

\* C5: in every timetable reported as found, at each slot at most one
\* (course, room) pair of each faculty is scheduled.
C5_FacultyExclusive ==
    TimetableFound =>
        \A s \in time_slots : \A f \in Faculties :
            Cardinality({cr \in course_indices \X room_indices :
                            faculty[cr[1]] = f /\ Scheduled(cr[1], s, cr[2])}) <= 1

\* A faculty teaching two courses has both scheduled, with two rooms to choose from
C5_Witness ==
    /\ pc = "done"
    /\ TimetableFound
    /\ num_rooms >= 2
    /\ \E p \in CoursePairs :
          /\ faculty[p[1]] = faculty[p[2]]
          /\ LectureCount(p[1]) >= 1
          /\ LectureCount(p[2]) >= 1

\* C6: in every timetable reported as found, a course is in at most one room
\* at each slot.
C6_SingleRoom ==
    TimetableFound =>
        \A c \in course_indices : \A s \in time_slots :
            Cardinality({r \in room_indices : Scheduled(c, s, r)}) <= 1

\* A grid variant schedules a course in two different rooms at two slots
C6_Witness ==
    /\ pc = "done"
    /\ variant # 1
    /\ TimetableFound
    /\ \E c \in course_indices : \E s1, s2 \in time_slots :
          \E r1, r2 \in room_indices :
              /\ s1 # s2
              /\ r1 # r2
              /\ x[c, s1, r1] = 1
              /\ x[c, s2, r2] = 1

Occurrences(q, e) == Cardinality({k \in 1 .. Len(q) : q[k] = e})

\* C8: each true cell (c, t, r) yields exactly one entry (c, faculty of c, r),
\* in the grid cell of day t div slots_per_day and period t mod slots_per_day
\* (t = day * slots_per_day + period), shown 1-based; a false cell yields no
\* entry; a cell shows "Free" exactly when no course is scheduled at its slot.
C8_Decoder ==
    (pc = "done" /\ TimetableFound) =>
        IF variant = 1
        THEN /\ Len(table_data) = num_courses
             /\ \A c \in course_indices :
                   LET ln == table_data[c + 1]
                   IN  /\ ln.course = c
                       /\ ln.faculty = faculty[c]
                       /\ ln.room = course_room[c]
                       /\ ln.day \in 1 .. days
                       /\ ln.period \in 1 .. slots_per_day
                       /\ (ln.day - 1) * slots_per_day + (ln.period - 1) = course_time[c]
        ELSE LET off == IF variant = 2 THEN 1 ELSE 0
             IN  /\ DOMAIN timetable =
                       (off .. (days - 1 + off)) \X (off .. (slots_per_day - 1 + off))
                 /\ Len(table_data) = days
                 /\ \A d \in 0 .. (days - 1) : \A p \in 0 .. (slots_per_day - 1) :
                       LET t == d * slots_per_day + p
                           cell == timetable[<<d + off, p + off>>]
                           shown == table_data[d + 1].cells[p + 1]
                       IN  /\ \A c \in course_indices : \A r \in room_indices :
                                 Occurrences(cell, <<c, faculty[c], r>>) = x[c, t, r]
                           /\ Len(cell) =
                                 Cardinality({cr \in course_indices \X room_indices :
                                                 x[cr[1], t, cr[2]] = 1})
                           /\ shown.text = "Free" <=> \A c \in course_indices : ~ScheduledAt(c, t)
                           /\ shown.text # "Free" => shown.entries = cell
                           /\ table_data[d + 1].label = d + 1

\* A 2 x 2 week decoded with the one lecture at slot 2 (Day 2, P1) and Day 1, P2 free
C8_Witness ==
    /\ pc = "done"
    /\ variant = 3
    /\ TimetableFound
    /\ days = 2
    /\ slots_per_day = 2
    /\ x[0, 2, 0] = 1
    /\ x[0, 1, 0] = 0
    /\ timetable[<<1, 0>>] = <<<<0, faculty[0], 0>>>>
    /\ table_data[2].label = 2
    /\ table_data[2].cells[1].text = "entries"
    /\ table_data[1].cells[2].text = "Free"

\* 1 room, 2 slots, 3 courses that each need at least one lecture, no
\* unavailability, no shared students (variant 1 schedules every course once;
\* variant 2 declares no minimum)
ScenarioB ==
    /\ num_rooms = 1
    /\ total_slots = 2
    /\ num_courses = 3
    /\ faculty_unavailability = NoValue
    /\ shared_students = {}
    /\ variant \in {1, 3, 4}
    /\ variant \in {3, 4} => \A c \in course_indices : course_min_lectures[c] >= 1

\* C9: in scenario B the model has no solution, no timetable is reported and
\* "No feasible timetable found." is printed.
C9_ScenarioB ==
    ScenarioB =>
        /\ pc = "solve" => ~HasSolution(model)
        /\ pc \in {"print", "done"} => ~TimetableFound
        /\ pc = "done" => output = NoFeasibleMessage

\* Variant 3 proves scenario B infeasible and prints the message
C9_Witness ==
    /\ ScenarioB
    /\ variant = 3
    /\ pc = "done"
    /\ status = "INFEASIBLE"
    /\ output = NoFeasibleMessage

\* Rules 1-6 of the constraint compiler, on a grid g
Rule1(g) ==
    \A s \in time_slots : \A r \in room_indices :
        \A c1, c2 \in course_indices :
            (c1 # c2) => ~(g[c1, s, r] = 1 /\ g[c2, s, r] = 1)
Rule2(g) ==
    \A c \in course_indices : \A s \in time_slots :
        \A r1, r2 \in room_indices :
            (r1 # r2) => ~(g[c, s, r1] = 1 /\ g[c, s, r2] = 1)
Rule3(g) ==
    \A s \in time_slots :
        \A a, b \in course_indices \X room_indices :
            (a # b /\ faculty[a[1]] = faculty[b[1]]) =>
                ~(g[a[1], s, a[2]] = 1 /\ g[b[1], s, b[2]] = 1)
Rule4(g) ==
    \A c \in course_indices : \A s \in UnavailableSlots(faculty[c]) :
        \A r \in room_indices : g[c, s, r] # 1
Rule5(g) ==
    \A pair \in shared_students : \A s \in time_slots :
        \A r1, r2 \in room_indices :
            ~(g[pair[1], s, r1] = 1 /\ g[pair[2], s, r2] = 1)
Rule6(g) ==
    \A c \in DOMAIN course_min_lectures :
        Cardinality({sr \in time_slots \X room_indices : g[c, sr[1], sr[2]] = 1})
            >= course_min_lectures[c]
Rules(g) == Rule1(g) /\ Rule2(g) /\ Rule3(g) /\ Rule4(g) /\ Rule5(g) /\ Rule6(g)

\* Every course has exactly one true cell in g
EachCourseOnce(g) ==
    \A c \in course_indices :
        Cardinality({sr \in time_slots \X room_indices : g[c, sr[1], sr[2]] = 1}) = 1

\* Every slot has a true cell in g
EverySlotOccupied(g) ==
    \A s \in time_slots :
        \E c \in course_indices : \E r \in room_indices : g[c, s, r] = 1

\* g is a solution of the model the running variant built (for variant 1: g
\* is the grid of a valuation of course_time, course_room, same_room)
IsSolution(g) ==
    IF variant = 1
    THEN /\ EachCourseOnce(g)
         /\ LET at == [c \in course_indices |->
                          CHOOSE sr \in time_slots \X room_indices : g[c, sr[1], sr[2]] = 1]
                ct == [c \in course_indices |-> at[c][1]]
                cr == [c \in course_indices |-> at[c][2]]
            IN  \E sr \in SameRoomVals : SatV1(model, ct, cr, sr)
    ELSE SatGrid(model, g)

\* C10 as stated: for every variant, every grid that satisfies rules 1-6 is a
\* solution of the model the variant builds.
C10_ExactAllVariants ==
    pc = "solve" => \A g \in GridVals : Rules(g) => IsSolution(g)

\* C10 amended: that holds of variants 3 and 4; of variant 2 only for the
\* grids that also occupy every slot; of variant 1 only for the grids that
\* also schedule every course exactly once.
C10_ExactV3V4 ==
    pc = "solve" =>
        \A g \in GridVals :
            Rules(g) =>
                CASE variant \in {3, 4} -> IsSolution(g)
                  [] variant = 2 -> (EverySlotOccupied(g) => IsSolution(g))
                  [] variant = 1 -> (EachCourseOnce(g) => IsSolution(g))

\* Variant 3 has built its model, and the grid with nothing scheduled, which
\* leaves every slot free, is one of its solutions
C10_Witness ==
    /\ pc = "solve"
    /\ variant = 3
    /\ model = ConstraintsV3
    /\ total_slots >= 2
    /\ Rules([cell \in Cells |-> 0])
    /\ SatGrid(model, [cell \in Cells |-> 0])

====
